---- MODULE Spec2Model ----
(***************************************************************************)
(* Model of the sharded key-value cache with CLOCK eviction                *)
(* (package models, package controllers) of Jash2606/Redis-Server.         *)
(*                                                                         *)
(* Strings are sequences of bytes, so len(s) is Len(s).  A *list.Element   *)
(* is a positive integer (the address of the element), nil is Nil.         *)
(***************************************************************************)
EXTENDS Integers, Sequences, FiniteSets, TLC

\* ------------------------------------------------------------------ bounds
MaxShards == 2        \* shardCount ranges over 1..MaxShards
NumProcs == 2         \* HTTP requests served at the same time
MaxReqs == 3          \* HTTP requests accepted in one behaviour
MaxSlots == 2         \* maxConcurrent ranges over 1..MaxSlots
MaxCalls == 6         \* engine calls in one behaviour of SpecEngine
MaxCount == 3         \* largest count handed to evictBatch in SpecEngine

\* ------------------------------------------------------- program constants
EvictionBatchSize == 200
MaxMemoryPercent == 70
SeverePercent == 85
MaxFieldLen == 256

Nil == 0

\* ------------------------------------------------------------------ inputs
KeyEmpty == <<>>
KeyA == <<97>>
KeyB == <<98>>
Keys == {KeyEmpty, KeyA, KeyB}
Val1 == <<49>>
Val22 == <<50, 50>>
Values == {Val1, Val22}
LongStr == [i \in 1..(MaxFieldLen + 1) |-> 120]
EmptyStr == <<>>

EmptyMap == [x \in {} |-> Nil]

MapRemove(f, k) == [x \in (DOMAIN f) \ {k} |-> f[x]]

MapPut(f, k, v) == [x \in (DOMAIN f) \cup {k} |-> IF x = k THEN v ELSE f[x]]

\* ------------------------------------------------------------ hash routing
RECURSIVE XorBits(_, _, _)
XorBits(a, b, n) ==
    IF n = 0 THEN 0
    ELSE (((a % 2) + (b % 2)) % 2) + 2 * XorBits(a \div 2, b \div 2, n - 1)

\* hash *= 16777619 on uint32, the hash held as two 16-bit limbs:
\* 16777619 = 2^24 + 403, so h * 16777619 = h * 403 + (h % 2^8) * 2^24 (mod 2^32)
FnvMul(h) ==
    LET lowprod == h.lo * 403
    IN  [lo |-> lowprod % 65536,
         hi |-> (h.hi * 403 + (lowprod \div 65536) + (h.lo % 256) * 256) % 65536]

\* hash ^= uint32(key[i]) with key[i] < 256
FnvXor(h, byte) ==
    [lo |-> (h.lo \div 256) * 256 + XorBits(h.lo % 256, byte, 8), hi |-> h.hi]

RECURSIVE fnv32From(_, _, _)
fnv32From(h, key, i) ==
    IF i > Len(key) THEN h
    ELSE fnv32From(FnvXor(FnvMul(h), key[i]), key, i + 1)

\* 2166136261 = 33052 * 2^16 + 40389
fnv32(key) == fnv32From([hi |-> 33052, lo |-> 40389], key, 1)

\* fnv32 of the keys of the model, computed once
fnv32OfKeys == [key \in Keys |-> fnv32(key)]

\* hash % uint32(c.shardCount)
getShard(key, n) ==
    LET h == IF key \in Keys THEN fnv32OfKeys[key] ELSE fnv32(key)
    IN  ((h.hi % n) * (65536 % n) + (h.lo % n)) % n

\* ------------------------------------------------------------------- shard
NewShard == [items |-> EmptyMap, elements |-> EmptyMap, nodes |-> EmptyMap,
             itemsList |-> <<>>, clockHand |-> Nil]

\* a fresh *list.Element: an address no element of the list has
NewElement(s) ==
    CHOOSE e \in 1..(Cardinality(DOMAIN s.nodes) + 1) : e \notin DOMAIN s.nodes

IndexOf(l, e) == CHOOSE i \in 1..Len(l) : l[i] = e

Remove(l, e) == SelectSeq(l, LAMBDA x : x # e)

\* mutant: the element is pushed to the front
PushFront(l, e) == <<e>> \o l

\* l.PushBack(v)
PushBack(l, e) == Append(l, e)

nextOrFirst(e, l) ==
    IF IndexOf(l, e) = Len(l) THEN l[1] ELSE l[IndexOf(l, e) + 1]

\* mutant: a Get promotes the element to the back of the list, as an LRU would
GetMoveToBack(s, key) ==
    IF key \in DOMAIN s.elements
    THEN [s EXCEPT !.nodes[s.elements[key]].referenced = TRUE,
                   !.itemsList = Append(SelectSeq(s.itemsList,
                                     LAMBDA x : x # s.elements[key]), s.elements[key])]
    ELSE s

\* mutant: a Get leaves the bit as it is
GetNoTouch(s, key) == s

\* Get of a key that exists: item.referenced = true
GetTouch(s, key) ==
    IF key \in DOMAIN s.elements
    THEN [s EXCEPT !.nodes[s.elements[key]].referenced = TRUE]
    ELSE s

\* Get under the shard lock: the value returned and the shard it leaves
Get(s, key) ==
    IF key \in DOMAIN s.items
    THEN [val |-> s.items[key], found |-> TRUE, shard |-> GetTouch(s, key)]
    ELSE [val |-> EmptyStr, found |-> FALSE, shard |-> s]

\* mutant: the update adds the new value's length without taking the old one off
SizeDiffKeepsOld(value, oldVal) == Len(value)

\* sizeDiff of an update of an existing key
SizeDiff(value, oldVal) == Len(value) - Len(oldVal)

\* totalSize
TotalSize(key, value) == Len(key) + Len(value)

\* mutant: the update moves the element to the back of the list, as an LRU would
PutExistingMovesToBack(s, key, value) ==
    LET s1 == [s EXCEPT !.items[key] = value]
    IN  IF key \in DOMAIN s.elements
        THEN [s1 EXCEPT !.nodes[s.elements[key]] =
                            [@ EXCEPT !.referenced = TRUE, !.size = TotalSize(key, value)],
                        !.itemsList = Append(SelectSeq(s.itemsList,
                                          LAMBDA x : x # s.elements[key]), s.elements[key])]
        ELSE s1

\* mutant: the update marks the item and leaves the stored value
PutExistingKeepsValue(s, key, value) ==
    IF key \in DOMAIN s.elements
    THEN [s EXCEPT !.nodes[s.elements[key]] =
             [@ EXCEPT !.referenced = TRUE, !.size = Len(key) + Len(value)]]
    ELSE s

\* Put of a key that exists: the value is replaced, the item marked
PutExisting(s, key, value) ==
    LET s1 == [s EXCEPT !.items[key] = value]
    IN  IF key \in DOMAIN s.elements
        THEN [s1 EXCEPT !.nodes[s.elements[key]] =
                 [@ EXCEPT !.referenced = TRUE, !.size = TotalSize(key, value)]]
        ELSE s1

\* mutant: a new key displaces the entries the shard held, as a full cache would
PutNewDisplaces(s, key, value) ==
    LET element == NewElement(NewShard)
        item == [key |-> key, referenced |-> TRUE, size |-> TotalSize(key, value)]
    IN  [items |-> MapPut(EmptyMap, key, value),
         elements |-> MapPut(EmptyMap, key, element),
         nodes |-> MapPut(EmptyMap, element, item),
         itemsList |-> PushBack(<<>>, element),
         clockHand |-> element]

\* mutant: a new key never initialises the clock hand
PutNewLeavesHand(s, key, value) ==
    LET element == NewElement(s)
        item == [key |-> key, referenced |-> TRUE, size |-> TotalSize(key, value)]
    IN  [items |-> MapPut(s.items, key, value),
         elements |-> MapPut(s.elements, key, element),
         nodes |-> MapPut(s.nodes, element, item),
         itemsList |-> PushBack(s.itemsList, element),
         clockHand |-> s.clockHand]

\* Put of a new key: a ClockItem is pushed to the back of the list
PutNew(s, key, value) ==
    LET element == NewElement(s)
        item == [key |-> key, referenced |-> TRUE, size |-> TotalSize(key, value)]
    IN  [items |-> MapPut(s.items, key, value),
         elements |-> MapPut(s.elements, key, element),
         nodes |-> MapPut(s.nodes, element, item),
         itemsList |-> PushBack(s.itemsList, element),
         clockHand |-> IF s.clockHand = Nil THEN element ELSE s.clockHand]

\* Put under the shard lock: the shard it leaves and the delta it hands to
\* atomic.AddInt64(&c.memUsage, ...)
Put(s, key, value) ==
    IF key \in DOMAIN s.items
    THEN [exists |-> TRUE, oldVal |-> s.items[key],
          delta |-> SizeDiff(value, s.items[key]),
          shard |-> PutExisting(s, key, value)]
    ELSE [exists |-> FALSE, oldVal |-> EmptyStr,
          delta |-> TotalSize(key, value),
          shard |-> PutNew(s, key, value)]

\* the test of the CLOCK bit in evict
Referenced(item) == item.referenced

\* mutant: the attempt limit is one lap of the list
MaxAttemptsOneLap(s) == Len(s.itemsList)

\* the attempt limit of one sweep
MaxAttempts(s) == Len(s.itemsList) * 2

\* the loop of evict; order is the keys evicted so far, in eviction order
RECURSIVE evictLoop(_, _, _, _, _, _)
evictLoop(s, count, evicted, attempts, maxAttempts, order) ==
    IF ~(evicted < count /\ attempts < maxAttempts)
    THEN [shard |-> s, evicted |-> evicted, attempts |-> attempts, order |-> order]
    ELSE LET item == s.nodes[s.clockHand]
         IN  IF Referenced(item)
             THEN evictLoop([s EXCEPT !.nodes[s.clockHand].referenced = FALSE,
                                      !.clockHand = nextOrFirst(s.clockHand, s.itemsList)],
                            count, evicted, attempts + 1, maxAttempts, order)
             ELSE LET next == nextOrFirst(s.clockHand, s.itemsList)
                      s1 == [items |-> MapRemove(s.items, item.key),
                             elements |-> MapRemove(s.elements, item.key),
                             nodes |-> MapRemove(s.nodes, s.clockHand),
                             itemsList |-> Remove(s.itemsList, s.clockHand),
                             clockHand |-> next]
                  IN  IF Len(s1.itemsList) = 0
                      THEN [shard |-> [s1 EXCEPT !.clockHand = Nil],
                            evicted |-> evicted + 1, attempts |-> attempts + 1,
                            order |-> Append(order, item.key)]
                      ELSE evictLoop(s1, count, evicted + 1, attempts + 1,
                                     maxAttempts, Append(order, item.key))

\* mutant: the sweep starts by clearing the bit of every entry
evictClearsAll(s, count) ==
    IF s.clockHand = Nil \/ Len(s.itemsList) = 0
    THEN [shard |-> s, evicted |-> 0, attempts |-> 0, order |-> <<>>]
    ELSE evictLoop([s EXCEPT !.nodes = [e \in DOMAIN s.nodes |->
                                          [s.nodes[e] EXCEPT !.referenced = FALSE]]],
                   count, 0, 0, MaxAttempts(s), <<>>)

\* mutant: the sweep goes on until it has evicted one entry more than asked
evictOneMore(s, count) ==
    IF s.clockHand = Nil \/ Len(s.itemsList) = 0
    THEN [shard |-> s, evicted |-> 0, attempts |-> 0, order |-> <<>>]
    ELSE evictLoop(s, count + 1, 0, 0, MaxAttempts(s), <<>>)

\* evict under the shard lock
evict(s, count) ==
    IF s.clockHand = Nil \/ Len(s.itemsList) = 0
    THEN [shard |-> s, evicted |-> 0, attempts |-> 0, order |-> <<>>]
    ELSE evictLoop(s, count, 0, 0, MaxAttempts(s), <<>>)

\* perShardCount of evictBatch
PerShardCount(count, n) == IF count \div n < 1 THEN 1 ELSE count \div n

\* mutant: the loop visits every shard whatever has been evicted
BatchVisitsAll(i, n, evicted, count) == i < n

\* the loop condition of evictBatch
BatchGoesOn(i, n, evicted, count) == i < n /\ evicted < count

\* the loop of evictBatch run without interleaving, from shard i on
RECURSIVE evictBatchFrom(_, _, _, _, _, _)
evictBatchFrom(sh, n, count, perShardCount, i, acc) ==
    IF ~BatchGoesOn(i, n, acc.evicted, count)
    THEN [shards |-> sh, evicted |-> acc.evicted, calls |-> acc.calls]
    ELSE LET r == evict(sh[i], perShardCount)
         IN  evictBatchFrom([sh EXCEPT ![i] = r.shard], n, count, perShardCount, i + 1,
                            [evicted |-> acc.evicted + r.evicted,
                             calls |-> Append(acc.calls,
                                 [shard |-> i, count |-> perShardCount, pre |-> sh[i],
                                  evicted |-> r.evicted, attempts |-> r.attempts,
                                  order |-> r.order])])

evictBatch(sh, n, count) ==
    evictBatchFrom(sh, n, count, PerShardCount(count, n), 0,
                   [evicted |-> 0, calls |-> <<>>])

\* ------------------------------------------------------------------- state
VARIABLES
    shardCount,   \* c.shardCount
    shards,       \* c.shards: shard index -> items, elements, itemsList (with nodes), clockHand
    mu,           \* the RWMutex of each shard: writer held, number of readers
    memUsage,     \* c.memUsage
    stopChan,     \* "open" or "closed"
    mon,          \* the monitorMemory goroutine: position, the locals of evictBatch, history
    maxConcurrent,\* capacity of the semaphore channel (1000 in the program, 1..MaxSlots here)
    semaphore,    \* number of slots taken in the semaphore channel
    pc,           \* position of each HTTP request goroutine
    req,          \* locals of each request in flight: key, value and what Put computed
    resp,         \* the last response written, to any request
    nreq,         \* requests that have arrived
    lastPut,      \* history: key -> value of the last Put of the key since the last eviction
    last,         \* history (SpecEngine): the last engine call with the state it started from
    fresh,        \* history (SpecEngine): the Puts so far, while every call was a Put of a new key
    ncalls        \* engine calls made (SpecEngine)

vars == <<shardCount, shards, mu, memUsage, stopChan, mon, maxConcurrent, semaphore, pc, req, resp,
          nreq, lastPut, last, fresh, ncalls>>

httpVars == <<mu, stopChan, mon, maxConcurrent, semaphore, pc, req, resp, nreq, lastPut>>

engineVars == <<last, fresh, ncalls>>

Procs == 1..NumProcs

ShardIds == 0..(shardCount - 1)

\* float64(m.Alloc) / float64(m.Sys), in percent
MemRatios == {MaxMemoryPercent, SeverePercent, SeverePercent + 5}

\* keys and values sent over HTTP
HttpKeys == {KeyEmpty, KeyA}

\* the requests /put receives: well-formed ones, and one of each malformed kind
PutRequests ==
    [method : {"POST"}, jsonOK : {TRUE}, key : HttpKeys, value : Values]
    \cup {[method |-> "GET", jsonOK |-> TRUE, key |-> KeyA, value |-> Val1],
          [method |-> "POST", jsonOK |-> FALSE, key |-> EmptyStr, value |-> EmptyStr],
          [method |-> "POST", jsonOK |-> TRUE, key |-> LongStr, value |-> Val1],
          [method |-> "POST", jsonOK |-> TRUE, key |-> KeyA, value |-> LongStr]}

NoReq == [key |-> EmptyStr, value |-> EmptyStr, exists |-> FALSE, oldVal |-> EmptyStr,
          delta |-> 0]

NoResp == [code |-> 0, status |-> "", message |-> "", key |-> EmptyStr, value |-> EmptyStr]

ErrorResp(code, message) ==
    [code |-> code, status |-> "ERROR", message |-> message,
     key |-> EmptyStr, value |-> EmptyStr]

successPutResponse ==
    [code |-> 200, status |-> "OK", message |-> "Key inserted/updated successfully.",
     key |-> EmptyStr, value |-> EmptyStr]

NoCall == [op |-> "none"]

\* prev is history: the evictionCount of the last wake that called evictBatch
NoMon == [pc |-> "select", count |-> 0, perShardCount |-> 0, i |-> 0, evicted |-> 0,
          prev |-> 0]

\* NewCache, with the shard count drawn from 1..MaxShards
Init ==
    /\ shardCount \in 1..MaxShards
    /\ shards = [i \in 0..(shardCount - 1) |-> NewShard]
    /\ mu = [i \in 0..(shardCount - 1) |-> [writer |-> FALSE, readers |-> 0]]
    /\ memUsage = 0
    /\ stopChan = "open"
    /\ mon = NoMon
    /\ maxConcurrent \in 1..MaxSlots
    /\ semaphore = 0
    /\ pc = [p \in Procs |-> "idle"]
    /\ req = [p \in Procs |-> NoReq]
    /\ resp = NoResp
    /\ nreq = 0
    /\ lastPut = EmptyMap
    /\ last = NoCall
    /\ fresh = [ok |-> TRUE, puts |-> <<>>]
    /\ ncalls = 0

\* ----------------------------------------------------------- HTTP handlers
\* the select on the semaphore at the head of PutCache and GetCache
Admit(p, handler) ==
    /\ pc[p] = "idle"
    /\ nreq < MaxReqs
    /\ nreq' = nreq + 1
    /\ IF semaphore < maxConcurrent
       THEN /\ semaphore' = semaphore + 1
            /\ pc' = [pc EXCEPT ![p] = handler]
            /\ UNCHANGED resp
       ELSE /\ resp' = ErrorResp(429, "Too many requests")
            /\ UNCHANGED <<semaphore, pc>>
    /\ UNCHANGED <<shardCount, maxConcurrent, shards, mu, memUsage, stopChan, mon, req, lastPut>>
    /\ UNCHANGED engineVars

\* mutant: a handler returns without the deferred receive from the semaphore
ReturnKeepsSlot(p, r) ==
    /\ resp' = r
    /\ semaphore' = semaphore
    /\ pc' = [pc EXCEPT ![p] = "idle"]

\* a handler returns: the response is written and the deferred receive frees the slot
Return(p, r) ==
    /\ resp' = r
    /\ semaphore' = semaphore - 1
    /\ pc' = [pc EXCEPT ![p] = "idle"]

\* PutCache from the method check to the call of CacheInstance.Put
PutCacheCheck(p, r, timedOut) ==
    /\ pc[p] = "PutCache"
    /\ IF r.method # "POST"
       THEN Return(p, ErrorResp(405, "Method Not Allowed")) /\ UNCHANGED req
       ELSE IF ~r.jsonOK
       THEN Return(p, ErrorResp(400, "Invalid JSON")) /\ UNCHANGED req
       ELSE IF Len(r.key) > MaxFieldLen \/ Len(r.value) > MaxFieldLen
       THEN Return(p, ErrorResp(400, "Key and Value must be at most 256 characters"))
            /\ UNCHANGED req
       ELSE IF timedOut
       THEN Return(p, ErrorResp(408, "Request timeout")) /\ UNCHANGED req
       ELSE /\ req' = [req EXCEPT ![p] = [NoReq EXCEPT !.key = r.key, !.value = r.value]]
            /\ pc' = [pc EXCEPT ![p] = "Put"]
            /\ UNCHANGED <<resp, semaphore>>
    /\ UNCHANGED <<shardCount, maxConcurrent, shards, mu, memUsage, stopChan, mon, nreq,
                   lastPut>>
    /\ UNCHANGED engineVars

\* mutant: Put enters the shard under a read lock
PutLockShared(p) ==
    LET i == getShard(req[p].key, shardCount)
        r == Put(shards[i], req[p].key, req[p].value)
    IN  /\ pc[p] = "Put"
        /\ ~mu[i].writer
        /\ mu' = [mu EXCEPT ![i].writer = TRUE]
        /\ shards' = [shards EXCEPT ![i] = r.shard]
        /\ req' = [req EXCEPT ![p].exists = r.exists, ![p].oldVal = r.oldVal,
                              ![p].delta = r.delta]
        /\ lastPut' = MapPut(lastPut, req[p].key, req[p].value)
        /\ pc' = [pc EXCEPT ![p] = "PutAdd"]
        /\ UNCHANGED <<shardCount, maxConcurrent, memUsage, stopChan, mon, semaphore, resp, nreq>>
        /\ UNCHANGED engineVars

\* Put: shard.mu.Lock() and the update of the shard
PutLock(p) ==
    LET i == getShard(req[p].key, shardCount)
        r == Put(shards[i], req[p].key, req[p].value)
    IN  /\ pc[p] = "Put"
        /\ ~mu[i].writer /\ mu[i].readers = 0
        /\ mu' = [mu EXCEPT ![i].writer = TRUE]
        /\ shards' = [shards EXCEPT ![i] = r.shard]
        /\ req' = [req EXCEPT ![p].exists = r.exists, ![p].oldVal = r.oldVal,
                              ![p].delta = r.delta]
        /\ lastPut' = MapPut(lastPut, req[p].key, req[p].value)
        /\ pc' = [pc EXCEPT ![p] = "PutAdd"]
        /\ UNCHANGED <<shardCount, maxConcurrent, memUsage, stopChan, mon, semaphore, resp, nreq>>
        /\ UNCHANGED engineVars

\* Put: atomic.AddInt64(&c.memUsage, delta), the deferred Unlock, and the 200 of PutCache
PutAdd(p) ==
    LET i == getShard(req[p].key, shardCount)
    IN  /\ pc[p] = "PutAdd"
        /\ memUsage' = memUsage + req[p].delta
        /\ mu' = [mu EXCEPT ![i].writer = FALSE]
        /\ Return(p, successPutResponse)
        /\ req' = [req EXCEPT ![p] = NoReq]
        /\ UNCHANGED <<shardCount, maxConcurrent, shards, stopChan, mon, nreq, lastPut>>
        /\ UNCHANGED engineVars

\* GetCache up to the call of CacheInstance.Get
GetCacheCheck(p, key, timedOut) ==
    /\ pc[p] = "GetCache"
    /\ IF key = EmptyStr
       THEN Return(p, ErrorResp(400, "Missing key parameter")) /\ UNCHANGED req
       ELSE IF timedOut
       THEN Return(p, ErrorResp(408, "Request timeout")) /\ UNCHANGED req
       ELSE /\ req' = [req EXCEPT ![p] = [NoReq EXCEPT !.key = key]]
            /\ pc' = [pc EXCEPT ![p] = "Get"]
            /\ UNCHANGED <<resp, semaphore>>
    /\ UNCHANGED <<shardCount, maxConcurrent, shards, mu, memUsage, stopChan, mon, nreq,
                   lastPut>>
    /\ UNCHANGED engineVars

\* Get: shard.mu.RLock()
GetRLock(p) ==
    LET i == getShard(req[p].key, shardCount)
    IN  /\ pc[p] = "Get"
        /\ ~mu[i].writer
        /\ mu' = [mu EXCEPT ![i].readers = @ + 1]
        /\ pc' = [pc EXCEPT ![p] = "GetBody"]
        /\ UNCHANGED <<shardCount, maxConcurrent, shards, memUsage, stopChan, mon, semaphore,
                       req, resp, nreq, lastPut>>
        /\ UNCHANGED engineVars

\* Get: the body, the deferred RUnlock, and the response of GetCache.
\* Two Gets of one key under RLock both store true into item.referenced.
GetReturn(p) ==
    LET i == getShard(req[p].key, shardCount)
        r == Get(shards[i], req[p].key)
    IN  /\ pc[p] = "GetBody"
        /\ shards' = [shards EXCEPT ![i] = r.shard]
        /\ mu' = [mu EXCEPT ![i].readers = @ - 1]
        /\ req' = [req EXCEPT ![p] = NoReq]
        /\ IF ~r.found
           THEN Return(p, ErrorResp(404, "Key not found."))
           ELSE Return(p, [code |-> 200, status |-> "OK", message |-> "",
                           key |-> req[p].key, value |-> r.val])
        /\ UNCHANGED <<shardCount, maxConcurrent, memUsage, stopChan, mon, nreq, lastPut>>
        /\ UNCHANGED engineVars

\* ----------------------------------------------------------------- monitor
\* mutant: once a wake has doubled the batch, the later wakes keep it doubled
MonitorTickKeepsDouble(memRatio) ==
    /\ mon.pc = "select"
    /\ IF memRatio > MaxMemoryPercent
       THEN LET evictionCount == IF memRatio > SeverePercent
                                    \/ mon.prev = EvictionBatchSize * 2
                                 THEN EvictionBatchSize * 2
                                 ELSE EvictionBatchSize
            IN  mon' = [pc |-> "evictBatch", count |-> evictionCount,
                        perShardCount |-> PerShardCount(evictionCount, shardCount),
                        i |-> 0, evicted |-> 0, prev |-> mon.prev]
       ELSE mon' = mon
    /\ UNCHANGED <<shardCount, maxConcurrent, shards, mu, memUsage, stopChan, semaphore, pc, req, resp,
                   nreq, lastPut>>
    /\ UNCHANGED engineVars

\* monitorMemory: case <-ticker.C, down to the call of evictBatch
MonitorTick(memRatio) ==
    /\ mon.pc = "select"
    /\ IF memRatio > MaxMemoryPercent
       THEN LET evictionCount == IF memRatio > SeverePercent
                                 THEN EvictionBatchSize * 2
                                 ELSE EvictionBatchSize
            IN  mon' = [pc |-> "evictBatch", count |-> evictionCount,
                        perShardCount |-> PerShardCount(evictionCount, shardCount),
                        i |-> 0, evicted |-> 0, prev |-> mon.prev]
       ELSE mon' = mon
    /\ UNCHANGED <<shardCount, maxConcurrent, shards, mu, memUsage, stopChan, semaphore, pc, req, resp,
                   nreq, lastPut>>
    /\ UNCHANGED engineVars

\* evictBatch: shard.evict of the next shard takes s.mu.Lock()
MonitorLock ==
    /\ mon.pc = "evictBatch"
    /\ ~mu[mon.i].writer /\ mu[mon.i].readers = 0
    /\ mu' = [mu EXCEPT ![mon.i].writer = TRUE]
    /\ mon' = [mon EXCEPT !.pc = "evict"]
    /\ UNCHANGED <<shardCount, maxConcurrent, shards, memUsage, stopChan, semaphore, pc, req, resp,
                   nreq, lastPut>>
    /\ UNCHANGED engineVars

\* evictBatch: the sweep of shard i, its Unlock, and the loop test that follows
MonitorEvict ==
    LET r == evict(shards[mon.i], mon.perShardCount)
        evicted == mon.evicted + r.evicted
    IN  /\ mon.pc = "evict"
        /\ shards' = [shards EXCEPT ![mon.i] = r.shard]
        /\ mu' = [mu EXCEPT ![mon.i].writer = FALSE]
        /\ mon' = IF BatchGoesOn(mon.i + 1, shardCount, evicted, mon.count)
                  THEN [mon EXCEPT !.pc = "evictBatch", !.i = @ + 1, !.evicted = evicted]
                  ELSE [NoMon EXCEPT !.prev = mon.count]
        /\ lastPut' = IF r.evicted > 0 THEN EmptyMap ELSE lastPut
        /\ UNCHANGED <<shardCount, maxConcurrent, memUsage, stopChan, semaphore, pc, req, resp,
                       nreq>>
        /\ UNCHANGED engineVars

\* mutant: the stop case goes round the loop again instead of returning
MonitorStopLoops ==
    /\ mon.pc = "select"
    /\ stopChan = "closed"
    /\ mon' = mon
    /\ UNCHANGED <<shardCount, maxConcurrent, shards, mu, memUsage, stopChan, semaphore, pc, req, resp,
                   nreq, lastPut>>
    /\ UNCHANGED engineVars

\* monitorMemory: case <-c.stopChan
MonitorStop ==
    /\ mon.pc = "select"
    /\ stopChan = "closed"
    /\ mon' = [mon EXCEPT !.pc = "exited"]
    /\ UNCHANGED <<shardCount, maxConcurrent, shards, mu, memUsage, stopChan, semaphore, pc, req, resp,
                   nreq, lastPut>>
    /\ UNCHANGED engineVars

\* Close, called once by main
Close ==
    /\ stopChan = "open"
    /\ stopChan' = "closed"
    /\ UNCHANGED <<shardCount, maxConcurrent, shards, mu, memUsage, mon, semaphore, pc, req, resp,
                   nreq, lastPut>>
    /\ UNCHANGED engineVars

Next ==
    \/ \E p \in Procs, h \in {"PutCache", "GetCache"} : Admit(p, h)
    \/ \E p \in Procs, r \in PutRequests, t \in BOOLEAN : PutCacheCheck(p, r, t)
    \/ \E p \in Procs : PutLock(p)
    \/ \E p \in Procs : PutAdd(p)
    \/ \E p \in Procs, k \in HttpKeys, t \in BOOLEAN : GetCacheCheck(p, k, t)
    \/ \E p \in Procs : GetRLock(p)
    \/ \E p \in Procs : GetReturn(p)
    \/ \E r \in MemRatios : MonitorTick(r)
    \/ MonitorLock
    \/ MonitorEvict
    \/ MonitorStop
    \/ Close

Spec == Init /\ [][Next]_vars

\* Scheduling: a select with several ready cases picks one at random, so the stop case,
\* ready at every select once stopChan is closed, is taken in the end; a goroutine that
\* can run does run; a Lock that is waiting on a sync.RWMutex is not starved.
Fairness ==
    /\ SF_vars(MonitorStop)
    /\ SF_vars(MonitorLock)
    /\ WF_vars(MonitorEvict)
    /\ \A p \in Procs : WF_vars(PutAdd(p)) /\ WF_vars(GetReturn(p))

\* the program serving well-formed requests only: Puts and Gets of one key
StoreRequests == {r \in PutRequests : /\ r.method = "POST" /\ r.jsonOK
                                      /\ r.key = KeyA /\ r.value \in Values}

NextServing ==
    \/ \E p \in Procs, h \in {"PutCache", "GetCache"} : Admit(p, h)
    \/ \E p \in Procs, r \in StoreRequests : PutCacheCheck(p, r, FALSE)
    \/ \E p \in Procs : PutLock(p)
    \/ \E p \in Procs : PutAdd(p)
    \/ \E p \in Procs : GetCacheCheck(p, KeyA, FALSE)
    \/ \E p \in Procs : GetRLock(p)
    \/ \E p \in Procs : GetReturn(p)
    \/ \E r \in MemRatios : MonitorTick(r)
    \/ MonitorLock
    \/ MonitorEvict
    \/ MonitorStop
    \/ Close

SpecFair == Init /\ [][NextServing]_vars /\ Fairness

\* ------------------------------------------- the engine driven call by call
\* keys of a call sequence that so far only put new keys
FreshAfterPut(f, key, value) ==
    IF f.ok /\ (\A j \in 1..Len(f.puts) : f.puts[j][1] # key) THEN [ok |-> TRUE, puts |-> Append(f.puts, <<key, value>>)]
    ELSE [ok |-> FALSE, puts |-> <<>>]

Spoiled == [ok |-> FALSE, puts |-> <<>>]

\* c.Put(key, value), run to completion
EnginePut(key, value) ==
    LET i == getShard(key, shardCount)
        r == Put(shards[i], key, value)
    IN  /\ ncalls < MaxCalls
        /\ ncalls' = ncalls + 1
        /\ shards' = [shards EXCEPT ![i] = r.shard]
        /\ memUsage' = memUsage + r.delta
        /\ last' = [op |-> "Put", key |-> key, value |-> value, pre |-> shards,
                    exists |-> r.exists, memBefore |-> memUsage]
        /\ fresh' = FreshAfterPut(fresh, key, value)
        /\ UNCHANGED <<shardCount>>
        /\ UNCHANGED httpVars

\* c.Get(key), run to completion
EngineGet(key) ==
    LET i == getShard(key, shardCount)
        r == Get(shards[i], key)
    IN  /\ ncalls < MaxCalls
        /\ ncalls' = ncalls + 1
        /\ shards' = [shards EXCEPT ![i] = r.shard]
        /\ last' = [op |-> "Get", key |-> key, pre |-> shards,
                    val |-> r.val, found |-> r.found, memBefore |-> memUsage]
        /\ fresh' = Spoiled
        /\ UNCHANGED <<shardCount, memUsage>>
        /\ UNCHANGED httpVars

\* the keys the call before touched: the key of a Put, the key a Get found
Touched(call) ==
    IF call.op = "Put" \/ (call.op = "Get" /\ call.found) THEN {call.key} ELSE {}

\* c.evictBatch(count), run to completion
EngineEvictBatch(count) ==
    LET r == evictBatch(shards, shardCount, count)
    IN  /\ ncalls < MaxCalls
        /\ ncalls' = ncalls + 1
        /\ shards' = r.shards
        /\ last' = [op |-> "evictBatch", count |-> count, pre |-> shards,
                    evicted |-> r.evicted, calls |-> r.calls, fresh |-> fresh,
                    touched |-> Touched(last), prevOp |-> last.op]
        /\ fresh' = Spoiled
        /\ UNCHANGED <<shardCount, memUsage>>
        /\ UNCHANGED httpVars

NextEngine ==
    \/ \E k \in Keys, v \in Values : EnginePut(k, v)
    \/ \E k \in Keys : EngineGet(k)
    \/ \E c \in 0..MaxCount : EngineEvictBatch(c)

SpecEngine == Init /\ [][NextEngine]_vars

\* ------------------------------------------------------------ observations
RECURSIVE SumOver(_, _)
SumOver(f, S) ==
    IF S = {} THEN 0
    ELSE LET x == CHOOSE y \in S : TRUE
         IN  f[x] + SumOver(f, S \ {x})

\* len(key) + len(value) summed over the live entries of a shard
LiveSize(s) == SumOver([k \in DOMAIN s.items |-> Len(k) + Len(s.items[k])], DOMAIN s.items)

TotalLiveSize(sh) == SumOver([i \in DOMAIN sh |-> LiveSize(sh[i])], DOMAIN sh)

Entries(sh) == SumOver([i \in DOMAIN sh |-> Cardinality(DOMAIN sh[i].items)], DOMAIN sh)

\* no Put between its update and its atomic add, no sweep in progress
Quiescent == (\A p \in Procs : pc[p] # "PutAdd") /\ mon.pc # "evict"

\* what c.Get(key) returns in the current state
Lookup(key) == Get(shards[getShard(key, shardCount)], key)

\* the entries of shard s whose CLOCK bit has the value b
WithBit(s, b) == {e \in DOMAIN s.nodes : s.nodes[e].referenced = b}

KeysWithBit(s, b) == {s.nodes[e].key : e \in WithBit(s, b)}

\* the sweeps of the last evictBatch call (SpecEngine)
Sweeps == IF last.op = "evictBatch" THEN {last.calls[j] : j \in 1..Len(last.calls)} ELSE {}

\* ------------------------------------- the engine from any state of a shard
\* the lists of distinct keys
KeyLists ==
    {q \in UNION {[1..n -> Keys] : n \in 0..Cardinality(Keys)} :
        \A a, b \in 1..Len(q) : a # b => q[a] # q[b]}

\* the shard that holds the keys of q in list order, element j for the j-th of them,
\* with the CLOCK bits given and the hand on element hand
ShardOf(q, bits, hand) ==
    IF Len(q) = 0 THEN NewShard
    ELSE [items |-> [k \in {q[j] : j \in 1..Len(q)} |-> Val1],
          elements |-> [k \in {q[j] : j \in 1..Len(q)} |-> IndexOf(q, k)],
          nodes |-> [e \in 1..Len(q) |->
                       [key |-> q[e], referenced |-> bits[e],
                        size |-> TotalSize(q[e], Val1)]],
          itemsList |-> [e \in 1..Len(q) |-> e],
          clockHand |-> hand]

\* every state calls of Put, Get and evict can leave a shard in: any keys in any order,
\* any bits, the hand on any element
ShardStates ==
    {NewShard} \cup
    {ShardOf(q, bits, hand) :
        <<q, bits, hand>> \in
            {t \in KeyLists \X [1..Cardinality(Keys) -> BOOLEAN] \X (1..Cardinality(Keys)) :
                Len(t[1]) > 0 /\ t[3] <= Len(t[1])}}

\* a cache of one shard some way into its life, with two calls still to come
InitShard ==
    /\ shardCount = 1
    /\ \E s \in ShardStates : shards = [i \in {0} |-> s]
    /\ mu = [i \in {0} |-> [writer |-> FALSE, readers |-> 0]]
    /\ memUsage = LiveSize(shards[0])
    /\ stopChan = "open"
    /\ mon = NoMon
    /\ maxConcurrent = MaxSlots
    /\ semaphore = 0
    /\ pc = [p \in Procs |-> "idle"]
    /\ req = [p \in Procs |-> NoReq]
    /\ resp = NoResp
    /\ nreq = 0
    /\ lastPut = EmptyMap
    /\ last = NoCall
    /\ fresh = Spoiled
    /\ ncalls = MaxCalls - 2

SpecShard == InitShard /\ [][NextEngine]_vars

\* ------------------------------------------------------------------ claims

\* C1: once Put(k, v) has updated the shard, and while no entry has been evicted
\* and no later Put of k has run, Get(k) returns (v, true), whatever Gets and Puts
\* of other keys are interleaved.
C1_PutThenGet ==
    \A k \in DOMAIN lastPut : Lookup(k).found /\ Lookup(k).val = lastPut[k]

\* C1 witness: a GET has answered the value of the last Put of its key, with a second
\* key stored since
C1_Witness ==
    /\ resp.code = 200 /\ resp.status = "OK" /\ resp.message = ""
    /\ resp.key \in DOMAIN lastPut
    /\ resp.value = lastPut[resp.key]
    /\ Cardinality(DOMAIN lastPut) > 1

\* C2 (as claimed): in every quiescent state memUsage is the sum of len(key)+len(value)
\* over the live entries of all shards.
C2_MemUsageIsLiveSize == Quiescent => memUsage = TotalLiveSize(shards)

\* C3: a Put of a key that is present hands len(v2) - len(v1) to the counter, a Put of
\* an absent key hands len(k) + len(v), and the counter moves by exactly that amount
\* when the Put adds it, whatever other Puts are in flight.
C3_PutDelta ==
    [][\A p \in Procs :
         /\ PutLock(p) =>
              LET k == req[p].key
                  v == req[p].value
                  s == shards[getShard(k, shardCount)]
              IN  /\ req'[p].delta = IF k \in DOMAIN s.items
                                     THEN Len(v) - Len(s.items[k])
                                     ELSE Len(k) + Len(v)
                  /\ k \in DOMAIN lastPut => req'[p].delta = Len(v) - Len(lastPut[k])
         /\ PutAdd(p) => memUsage' = memUsage + req[p].delta]_vars

\* C3 witness: two Puts are in flight at once, one of them an update that changes the
\* length of the value
C3_Witness ==
    \E p, q \in Procs :
        /\ p # q /\ pc[p] = "PutAdd" /\ pc[q] = "PutAdd"
        /\ req[p].exists /\ req[p].delta # 0

\* C4: one evictBatch(count) removes at most count entries over all shards, adds none,
\* and removes none from an empty cache.
C4_BatchAtMostCount ==
    last.op = "evictBatch" =>
        /\ Entries(last.pre) - Entries(shards) <= last.count
        /\ Entries(last.pre) - Entries(shards) = last.evicted
        /\ \A i \in ShardIds : DOMAIN shards[i].items \subseteq DOMAIN last.pre[i].items
        /\ Entries(last.pre) = 0 => last.evicted = 0

\* C4 witness: with several shards, the batch stopped at count before the last shard,
\* leaving entries behind
C4_Witness ==
    /\ last.op = "evictBatch"
    /\ shardCount > 1
    /\ last.count > 0
    /\ last.evicted = last.count
    /\ Len(last.calls) < shardCount
    /\ Entries(shards) > 0

\* the keys evicted by the last evictBatch of a one-shard cache, in eviction order
BatchOrder == IF Len(last.calls) = 0 THEN <<>> ELSE last.calls[1].order

\* C5: with one shard, after N Puts of distinct keys and nothing else, evictBatch(k)
\* with k < N removes exactly the k keys put first, in the order they were put; then
\* Get of each of them misses and Get of each other key returns its value.
C5_EvictsInInsertionOrder ==
    (/\ last.op = "evictBatch"
     /\ shardCount = 1
     /\ last.fresh.ok
     /\ last.count < Len(last.fresh.puts)) =>
        LET puts == last.fresh.puts
        IN  /\ last.evicted = last.count
            /\ Entries(last.pre) - Entries(shards) = last.count
            /\ BatchOrder = [j \in 1..last.count |-> puts[j][1]]
            /\ \A j \in 1..Len(puts) :
                 IF j <= last.count
                 THEN ~Lookup(puts[j][1]).found /\ Lookup(puts[j][1]).val = EmptyStr
                 ELSE Lookup(puts[j][1]).found /\ Lookup(puts[j][1]).val = puts[j][2]

\* C5 witness: three keys were put and evictBatch(2) has run
C5_Witness ==
    /\ last.op = "evictBatch"
    /\ shardCount = 1
    /\ last.fresh.ok
    /\ Len(last.fresh.puts) = 3
    /\ last.count = 2

\* C6 (as claimed): an entry that a Get or a Put touched just before a sweep, so that
\* its bit is set when evict starts, is still in the shard when that evict returns.
C6_TouchedSurvives ==
    \A c \in Sweeps :
        /\ \A k \in last.touched :
             getShard(k, shardCount) = c.shard => k \in KeysWithBit(c.pre, TRUE)
        /\ KeysWithBit(c.pre, TRUE) \subseteq DOMAIN shards[c.shard].items

\* C6 (amended): an entry that a Get or a Put touched just before a sweep has its bit
\* set when evict starts, and an entry whose bit is set when evict starts is still in
\* the shard when that evict returns provided the count asked for is at most the
\* number of entries of the shard whose bit is clear at the start.
C6_TouchedSurvivesSmallCount ==
    \A c \in Sweeps :
        /\ \A k \in last.touched :
             getShard(k, shardCount) = c.shard => k \in KeysWithBit(c.pre, TRUE)
        /\ c.count <= Cardinality(WithBit(c.pre, FALSE)) =>
             KeysWithBit(c.pre, TRUE) \subseteq DOMAIN shards[c.shard].items

\* C6 witness: a Get found a key, and the sweep that followed evicted another entry
\* of its shard, the count within the number of clear bits
C6_Witness ==
    \E c \in Sweeps :
        /\ c.count <= Cardinality(WithBit(c.pre, FALSE))
        /\ c.evicted > 0
        /\ \E k \in last.touched : getShard(k, shardCount) = c.shard
        /\ last.prevOp = "Get"

\* C7: within one evict, when an entry whose bit was set at the start is evicted,
\* every entry whose bit was clear at the start has been evicted before it.
C7_ClearBitsGoFirst ==
    \A c \in Sweeps :
        \A j \in 1..Len(c.order) :
            c.order[j] \in KeysWithBit(c.pre, TRUE) =>
                \A k \in KeysWithBit(c.pre, FALSE) :
                    \E h \in 1..(j - 1) : c.order[h] = k

\* C7 witness: one sweep has evicted an entry whose bit was set, in a shard that also
\* held an entry whose bit was clear
C7_Witness ==
    \E c \in Sweeps :
        /\ WithBit(c.pre, FALSE) # {}
        /\ \E j \in 1..Len(c.order) : c.order[j] \in KeysWithBit(c.pre, TRUE)

\* C8 (as claimed): once Close has returned, no entry is removed from any shard.
C8_NoEvictionAfterClose ==
    [][stopChan = "closed" =>
         \A i \in ShardIds : DOMAIN shards[i].items \subseteq DOMAIN shards'[i].items]_vars

\* C9: a Get of an absent key returns ("", false); any Get leaves the counter, every
\* other shard, and its shard's items, elements, list order, hand, keys and sizes as
\* they were, and changes only the bit of the entry it found, to true.
C9_GetFrame ==
    last.op = "Get" =>
        LET k == last.key
            i == getShard(k, shardCount)
            was == last.pre[i]
            now == shards[i]
        IN  /\ \A j \in ShardIds \ {i} : shards[j] = last.pre[j]
            /\ now.items = was.items
            /\ now.elements = was.elements
            /\ now.itemsList = was.itemsList
            /\ now.clockHand = was.clockHand
            /\ DOMAIN now.nodes = DOMAIN was.nodes
            /\ \A e \in DOMAIN was.nodes :
                 /\ now.nodes[e].key = was.nodes[e].key
                 /\ now.nodes[e].size = was.nodes[e].size
                 /\ now.nodes[e].referenced = (was.nodes[e].referenced \/ was.nodes[e].key = k)
            /\ memUsage = last.memBefore
            /\ IF k \in DOMAIN was.items
               THEN last.found /\ last.val = was.items[k]
               ELSE ~last.found /\ last.val = EmptyStr /\ shards = last.pre

\* C9 witness: a Get has found its key, whose bit a sweep had cleared, in a shard that
\* holds a second entry
C9_Witness ==
    /\ last.op = "Get" /\ last.found
    /\ LET was == last.pre[getShard(last.key, shardCount)]
       IN  /\ Len(was.itemsList) > 1
           /\ last.key \in KeysWithBit(was, FALSE)

\* C10 (as claimed): invalid JSON, an over-long key or value, a missing key parameter
\* and a key that is not found are answered with 202 and status ERROR; a Put that
\* succeeds and a Get that finds its key are answered with 200.
C10_ErrorsAre202 ==
    /\ resp.message \in {"Invalid JSON", "Key and Value must be at most 256 characters",
                         "Missing key parameter", "Key not found."}
          => resp.code = 202 /\ resp.status = "ERROR"
    /\ resp.status = "OK" => resp.code = 200

\* the requests that have passed admission and have not returned
InFlight == {p \in Procs : pc[p] # "idle"}

\* C11: the requests admitted and not yet returned are never more than maxConcurrent
\* and each holds one slot, so that all slots are free when none is in flight; a
\* request that arrives with every slot taken is answered "Too many requests" in the
\* same step without touching the cache; every return of an admitted request frees
\* exactly one slot.
C11_SlotsBoundRequests ==
    /\ [](/\ Cardinality(InFlight) <= maxConcurrent
          /\ semaphore = Cardinality(InFlight))
    /\ [][\A p \in Procs, h \in {"PutCache", "GetCache"} :
            Admit(p, h) =>
                IF semaphore = maxConcurrent
                THEN /\ resp' = ErrorResp(429, "Too many requests")
                     /\ UNCHANGED <<shards, mu, memUsage, pc, req, semaphore>>
                ELSE /\ semaphore' = semaphore + 1
                     /\ pc'[p] = h]_vars
    /\ [][\A p \in Procs :
            (pc[p] # "idle" /\ pc'[p] = "idle") => semaphore' = semaphore - 1]_vars

\* C11 witness: a request has been turned away with 429 while every slot is held by
\* a request in flight
C11_Witness ==
    /\ resp.code = 429 /\ resp.message = "Too many requests"
    /\ semaphore = maxConcurrent
    /\ Cardinality(InFlight) = maxConcurrent

\* the elements of the list of shard s, as a set
ListElements(s) == {s.itemsList[j] : j \in 1..Len(s.itemsList)}

\* items, elements and the list hold the same keys, one list element per key, and the
\* hand is nil exactly when the list is empty and is otherwise an element of the list
WellFormed(s) ==
    /\ DOMAIN s.items = DOMAIN s.elements
    /\ ListElements(s) = DOMAIN s.nodes
    /\ Cardinality(ListElements(s)) = Len(s.itemsList)
    /\ {s.nodes[e].key : e \in DOMAIN s.nodes} = DOMAIN s.items
    /\ Len(s.itemsList) = Cardinality(DOMAIN s.items)
    /\ \A k \in DOMAIN s.elements :
         /\ s.elements[k] \in ListElements(s)
         /\ s.nodes[s.elements[k]].key = k
    /\ (s.clockHand = Nil) <=> (Len(s.itemsList) = 0)
    /\ s.clockHand # Nil => s.clockHand \in ListElements(s)

\* C12: after any sequence of Put, Get and evict, with no call inside the shard, the
\* keys of items, the keys of elements and the keys of the list's ClockItems are one
\* set with exactly one list element per key, and clockHand is nil if and only if the
\* shard is empty and otherwise is an element of the list.
C12_ShardWellFormed == \A i \in ShardIds : WellFormed(shards[i])

\* C12 witness: a sweep has evicted an entry of a shard and left another behind
C12_Witness ==
    /\ \E c \in Sweeps : c.evicted > 0 /\ Len(shards[c.shard].itemsList) > 0
                          /\ Len(c.pre.itemsList) > c.evicted

\* the keys of every shard
KeySets == [i \in ShardIds |-> DOMAIN shards[i].items]

\* C13: a step that takes a key out of a shard is a sweep of the monitor's evictBatch;
\* the update of a Put and the body of a Get leave every key of every shard in place,
\* however many entries the shard holds.
C13_OnlyMonitorRemoves ==
    [][/\ (\E i \in ShardIds : ~(KeySets[i] \subseteq KeySets'[i])) => MonitorEvict
       /\ \A p \in Procs :
            (PutLock(p) \/ GetReturn(p)) =>
                \A i \in ShardIds : KeySets[i] \subseteq KeySets'[i]]_vars

\* C13 witness: a Put has stored a new key in a shard that held an entry already, a
\* Get has then found a key, and both entries are there
C13_Witness ==
    /\ resp.code = 200 /\ resp.message = ""
    /\ \E i \in ShardIds : Cardinality(KeySets[i]) > 1

\* C14: a wake of the monitor with Alloc/Sys at most 0.7 calls no evictBatch and
\* removes nothing; with the ratio above 0.7 and at most 0.85 it calls evictBatch once,
\* with 200; above 0.85 once, with 400; the count of a wake is fixed by the ratio of
\* that wake alone, whatever the count of the wake before, and a call of evictBatch
\* starts only at a wake.
C14_WakeEvictsByRatio ==
    [][/\ \A r \in MemRatios :
            MonitorTick(r) =>
                /\ r <= 70 => mon'.pc = "select" /\ shards' = shards
                /\ (r > 70 /\ r <= 85) =>
                      mon'.pc = "evictBatch" /\ mon'.i = 0 /\ mon'.count = 200
                /\ r > 85 =>
                      mon'.pc = "evictBatch" /\ mon'.i = 0 /\ mon'.count = 400
       /\ (mon.pc = "select" /\ mon'.pc = "evictBatch") =>
              \E r \in MemRatios : r > 70 /\ MonitorTick(r)
       /\ (mon.pc # "select" /\ mon'.pc # "select") =>
              mon'.count = mon.count /\ mon'.i >= mon.i]_vars

\* C14 witness: a wake has called evictBatch with 200 and the wake before it had
\* called evictBatch with 400
C14_Witness ==
    /\ mon.pc = "evict"
    /\ mon.count = 200
    /\ mon.prev = 400

\* C15: once Close has closed stopChan the monitor goroutine leaves its loop in the
\* end; once it has left, it takes no further step and no key leaves any shard; and a
\* wake starts only from the select, when no evictBatch of an earlier wake is running.
C15_MonitorStops ==
    /\ (stopChan = "closed") ~> (mon.pc = "exited")
    /\ [][mon.pc = "exited" =>
             /\ mon' = mon
             /\ \A i \in ShardIds : KeySets[i] \subseteq KeySets'[i]]_vars
    /\ [][(mon'.pc = "evictBatch" /\ mon'.i = 0 /\ mon' # mon) => mon.pc = "select"]_vars

\* C15 witness: Close came while a sweep was running, the monitor has finished it and
\* has left its loop, and a Put has stored a key since
C15_Witness ==
    /\ stopChan = "closed"
    /\ mon.pc = "exited"
    /\ mon.prev > 0
    /\ Entries(shards) > 0

\* the Puts, the Gets and the sweeps that are inside shard i
PutsInside(i) == {p \in Procs : pc[p] = "PutAdd" /\ getShard(req[p].key, shardCount) = i}

GetsInside(i) == {p \in Procs : pc[p] = "GetBody" /\ getShard(req[p].key, shardCount) = i}

SweepsInside(i) == IF mon.pc = "evict" /\ mon.i = i THEN 1 ELSE 0

WritersInside(i) == Cardinality(PutsInside(i)) + SweepsInside(i)

\* C16: at most one Put or evict is inside a shard, and then no Get is inside it; a
\* Put or an evict that waits for a shard with nothing inside it can enter, and so can
\* a Get that waits for a shard with no Put and no evict inside it, whatever is inside
\* the other shards.
C16_LockDiscipline ==
    /\ \A i \in ShardIds :
         /\ WritersInside(i) <= 1
         /\ WritersInside(i) = 1 => GetsInside(i) = {}
    /\ \A p \in Procs :
         LET i == getShard(req[p].key, shardCount)
         IN  /\ (pc[p] = "Put" /\ WritersInside(i) = 0 /\ GetsInside(i) = {})
                   => ENABLED PutLock(p)
             /\ (pc[p] = "Get" /\ WritersInside(i) = 0) => ENABLED GetRLock(p)
    /\ (mon.pc = "evictBatch" /\ WritersInside(mon.i) = 0 /\ GetsInside(mon.i) = {})
          => ENABLED MonitorLock

\* C16 witness: two Gets are inside one shard at once while the monitor's sweep is
\* inside another shard
C16_Witness ==
    \E i, j \in ShardIds :
        /\ i # j
        /\ Cardinality(GetsInside(i)) = 2
        /\ SweepsInside(j) = 1

\* the counts handed to evict: those of SpecEngine, and 0
Counts == 0..MaxCount

\* C17: every evict(count) returns, after at most 2 x L passes of its loop, L the
\* length of the list at the start, also when every bit is set; what it returns is at
\* most count and at most L, and is a plain count also when it is less than count.
C17_EvictBounded ==
    /\ \A c \in Sweeps :
         /\ c.attempts <= 2 * Len(c.pre.itemsList)
         /\ c.evicted <= c.count
         /\ c.evicted <= Len(c.pre.itemsList)
         /\ c.evicted = Len(c.pre.itemsList) - Len(shards[c.shard].itemsList)
    /\ \A i \in ShardIds, n \in Counts :
         LET r == evict(shards[i], n)
         IN  /\ r.attempts <= 2 * Len(shards[i].itemsList)
             /\ r.evicted \in 0..n
             /\ r.evicted <= Len(shards[i].itemsList)

\* C17 witness: a sweep of a shard whose every bit was set used all of its 2 x L
\* passes and returned less than the count it was given
C17_Witness ==
    \E c \in Sweeps :
        /\ Len(c.pre.itemsList) > 0
        /\ WithBit(c.pre, FALSE) = {}
        /\ c.attempts = 2 * Len(c.pre.itemsList)
        /\ c.evicted < c.count

\* C18: a Put of a key the shard holds replaces the value, sets the item's size to
\* len(key) + len(value) and its bit to true, and leaves the list, the elements, the
\* other items, the hand and the number of entries as they were; a Put of a new key
\* pushes one item with its bit set to the back of the list and sets the hand to it
\* only when the hand was nil.  Either way the other shards are left alone.
C18_PutFrame ==
    last.op = "Put" =>
        LET k == last.key
            i == getShard(k, shardCount)
            was == last.pre[i]
            now == shards[i]
            item == [key |-> k, referenced |-> TRUE, size |-> Len(k) + Len(last.value)]
        IN  /\ \A j \in ShardIds \ {i} : shards[j] = last.pre[j]
            /\ now.items = MapPut(was.items, k, last.value)
            /\ IF k \in DOMAIN was.items
               THEN /\ last.exists
                    /\ now.itemsList = was.itemsList
                    /\ now.elements = was.elements
                    /\ now.clockHand = was.clockHand
                    /\ Cardinality(DOMAIN now.items) = Cardinality(DOMAIN was.items)
                    /\ now.nodes = [was.nodes EXCEPT ![was.elements[k]] = item]
               ELSE /\ ~last.exists
                    /\ Len(now.itemsList) = Len(was.itemsList) + 1
                    /\ LET e == now.itemsList[Len(now.itemsList)]
                       IN  /\ e \notin DOMAIN was.nodes
                           /\ now.itemsList = Append(was.itemsList, e)
                           /\ now.elements = MapPut(was.elements, k, e)
                           /\ now.nodes = MapPut(was.nodes, e, item)
                           /\ now.clockHand = IF was.clockHand = Nil THEN e
                                              ELSE was.clockHand

\* C18 witness: a Put has replaced, by a value of another length, the value of a key
\* whose bit was clear, the key not the last of a list of several and the hand not on
\* the first of them
C18_Witness ==
    /\ last.op = "Put" /\ last.exists
    /\ LET was == last.pre[getShard(last.key, shardCount)]
       IN  /\ Len(was.itemsList) > 1
           /\ was.clockHand # was.itemsList[1]
           /\ was.itemsList[Len(was.itemsList)] # was.elements[last.key]
           /\ last.key \in KeysWithBit(was, FALSE)
           /\ Len(was.items[last.key]) # Len(last.value)

Min(a, b) == IF a < b THEN a ELSE b

\* C19: evict(n) on a shard of L entries evicts exactly min(n, L) of them, whatever
\* the bits and the place of the hand: the limit of 2 x L passes never cuts a sweep
\* short of min(n, L).
C19_EvictsMinOfCountAndLen ==
    /\ \A c \in Sweeps :
         /\ c.evicted = Min(c.count, Len(c.pre.itemsList))
         /\ Len(shards[c.shard].itemsList) = Len(c.pre.itemsList) - c.evicted
    /\ \A i \in ShardIds, n \in Counts :
         LET r == evict(shards[i], n)
         IN  /\ r.evicted = Min(n, Len(shards[i].itemsList))
             /\ Len(r.shard.itemsList) = Len(shards[i].itemsList) - r.evicted

\* C19 witness: a sweep of a shard of several entries, every bit set and the hand not
\* on the first of them, was asked for all of them and evicted them all
C19_Witness ==
    \E c \in Sweeps :
        /\ Len(c.pre.itemsList) > 1
        /\ WithBit(c.pre, FALSE) = {}
        /\ c.pre.clockHand # c.pre.itemsList[1]
        /\ c.count >= Len(c.pre.itemsList)
        /\ c.attempts = 2 * Len(c.pre.itemsList)
        /\ c.evicted = Len(c.pre.itemsList)

\* the keys stored by a PUT since the last eviction, every PUT of the key answered
Answered == {k \in DOMAIN lastPut : \A q \in Procs : pc[q] = "PutAdd" => req[q].key # k}

\* C20 (as claimed): a GET of a key that a PUT has stored and been answered 200 for,
\* with no eviction since and no timeout, is passed on to the cache and is answered
\* 200, status OK, with the value of the last PUT of the key; the empty key is such a
\* key.
C20_StoredKeyReadsBack ==
    [][\A p \in Procs :
         /\ \A k \in Answered : GetCacheCheck(p, k, FALSE) => pc'[p] = "Get"
         /\ (GetReturn(p) /\ req[p].key \in DOMAIN lastPut) =>
               /\ resp'.code = 200 /\ resp'.status = "OK"
               /\ resp'.key = req[p].key
               /\ resp'.value = lastPut[req[p].key]]_vars

====
